---- MODULE Spec2Model ----
(***************************************************************************)
(* DNB Mastercard Excel importer (beancount_no_dnb/mastercard.py).         *)
(*                                                                         *)
(* Python values are tagged records: None is [t |-> "None"], a str is      *)
(* [t |-> "str", s |-> <<characters>>], an int or float cell is the record *)
(* of its str() text, a date is the number of its day in January 2024, a   *)
(* Decimal is its DecimalTuple (sign, digits, exponent) with the digits    *)
(* kept as characters.  A raised exception is [t |-> "raise", exc |->      *)
(* name].                                                                  *)
(***************************************************************************)
EXTENDS Integers, Sequences, FiniteSets, TLC

\* ------------------------------------------------------------ Python values

None == [t |-> "None"]
Str(s) == [t |-> "str", s |-> s]
IntCell(s) == [t |-> "int", s |-> s]
FloatCell(s) == [t |-> "float", s |-> s]
BoolCell(b) == [t |-> "bool", b |-> b]
DateTimeCell(d) == [t |-> "datetime", d |-> d]
DateCell(d) == [t |-> "date", d |-> d]
Raise(e) == [t |-> "raise", exc |-> e]

IsNone(v) == v.t = "None"
IsRaise(v) == v.t = "raise"

Digits == {"0", "1", "2", "3", "4", "5", "6", "7", "8", "9"}

\* The characters of the model are those of Latin-1 (U+0000 to U+00FF), a
\* str being the sequence of its characters.  Whitespace holds the ones
\* str.isspace() is true of: TAB, LF, VT, FF, CR, FS, GS, RS, US, SPACE, NEL
\* and NO-BREAK SPACE.  The whitespace, letters and digits of Unicode
\* beyond U+00FF are not among the characters of the model.
Whitespace ==
    {"\t", "\n", "", "\f", "\r", "", "", "", "", " ", "", " "}

\* ------------------------------------------------------------ str methods

RECURSIVE lstrip(_)
lstrip(s) == IF s # <<>> /\ Head(s) \in Whitespace THEN lstrip(Tail(s)) ELSE s

RECURSIVE rstrip(_)
rstrip(s) ==
    IF s # <<>> /\ s[Len(s)] \in Whitespace
    THEN rstrip(SubSeq(s, 1, Len(s) - 1))
    ELSE s

\* str.strip()
strip(s) == rstrip(lstrip(s))

\* str.replace(",", ".")
replace_comma(s) == [i \in 1..Len(s) |-> IF s[i] = "," THEN "." ELSE s[i]]

\* str.replace("_", "")
remove_underscores(s) == SelectSeq(s, LAMBDA c : c # "_")

RECURSIVE lstrip_zeros(_)
lstrip_zeros(s) == IF s # <<>> /\ Head(s) = "0" THEN lstrip_zeros(Tail(s)) ELSE s

\* The characters str.lower() changes, and what it changes them to.
Uppercase ==
    <<"A", "B", "C", "D", "E", "F", "G", "H", "I", "J", "K", "L", "M", "N",
      "O", "P", "Q", "R", "S", "T", "U", "V", "W", "X", "Y", "Z", "À", "Á",
      "Â", "Ã", "Ä", "Å", "Æ", "Ç", "È", "É", "Ê", "Ë", "Ì", "Í", "Î", "Ï",
      "Ð", "Ñ", "Ò", "Ó", "Ô", "Õ", "Ö", "Ø", "Ù", "Ú", "Û", "Ü", "Ý", "Þ">>

Lowercase ==
    <<"a", "b", "c", "d", "e", "f", "g", "h", "i", "j", "k", "l", "m", "n",
      "o", "p", "q", "r", "s", "t", "u", "v", "w", "x", "y", "z", "à", "á",
      "â", "ã", "ä", "å", "æ", "ç", "è", "é", "ê", "ë", "ì", "í", "î", "ï",
      "ð", "ñ", "ò", "ó", "ô", "õ", "ö", "ø", "ù", "ú", "û", "ü", "ý", "þ">>

LowerOf ==
    [c \in {Uppercase[i] : i \in 1..Len(Uppercase)} |->
        Lowercase[CHOOSE i \in 1..Len(Uppercase) : Uppercase[i] = c]]

Lower(c) == IF c \in DOMAIN LowerOf THEN LowerOf[c] ELSE c

\* str.lower()
lower(s) == [i \in 1..Len(s) |-> Lower(s[i])]

\* s.startswith(prefix)
startswith(s, prefix) == Len(s) >= Len(prefix) /\ SubSeq(s, 1, Len(prefix)) = prefix

DigitChars == <<"0", "1", "2", "3", "4", "5", "6", "7", "8", "9">>

\* int(c) of a digit
DigitVal(c) == (CHOOSE d \in 1..10 : DigitChars[d] = c) - 1

\* s.isdigit() or s == ""
IsDigits(s) == \A i \in 1..Len(s) : s[i] \in Digits

\* int(s) of a text of digits, 0 for the empty text
RECURSIVE IntOf(_)
IntOf(s) ==
    IF s = <<>> THEN 0
    ELSE 10 * IntOf(SubSeq(s, 1, Len(s) - 1)) + DigitVal(s[Len(s)])

\* str(n) of an int n >= 0
RECURSIVE IntStr(_)
IntStr(n) ==
    IF n < 10 THEN << DigitChars[n + 1] >>
    ELSE IntStr(n \div 10) \o << DigitChars[(n % 10) + 1] >>

\* str(int(s) + 1) of a text of digits
RECURSIVE Increment(_)
Increment(s) ==
    IF s = <<>> THEN <<"1">>
    ELSE IF s[Len(s)] = "9" THEN Increment(SubSeq(s, 1, Len(s) - 1)) \o <<"0">>
    ELSE SubSeq(s, 1, Len(s) - 1) \o << DigitChars[DigitVal(s[Len(s)]) + 2] >>

\* ------------------------------------------------------------ decimal.Decimal

\* A finite Decimal is its DecimalTuple: sign, digits (the coefficient, as
\* characters, without leading zeros) and exponent.  An infinity ("F"), a
\* quiet NaN ("n") and a signaling NaN ("N") carry the letter DecimalTuple
\* has for their exponent in special; digits is then "0" for an infinity
\* and the payload for a NaN.
Dec(sign, digits, exp) ==
    [t |-> "Decimal", sign |-> sign, digits |-> digits, exp |-> exp, special |-> ""]

SpecialDec(sign, digits, special) ==
    [t |-> "Decimal", sign |-> sign, digits |-> digits, exp |-> 0, special |-> special]

\* The default context: 28 digits, ROUND_HALF_EVEN, exponents in
\* -999999 .. 999999, traps on InvalidOperation, DivisionByZero, Overflow.
PREC == 28
EMAX == 999999
EMIN == -999999
Etiny == EMIN - PREC + 1
Etop == EMAX - PREC + 1

DotPositions(s) == {i \in 1..Len(s) : s[i] = "."}

\* The coefficient: the digits without leading zeros, "0" when none is left.
Coefficient(stripped) == IF stripped = <<>> THEN <<"0">> ELSE stripped

\* A number from the digits before and after the decimal point and the
\* exponent e.
DecimalDigits(sign, all, places, e) ==
    IF all # <<>> /\ IsDigits(all)
    THEN Dec(sign, Coefficient(lstrip_zeros(all)), e - places)
    ELSE Raise("InvalidOperation")

DecimalParts(sign, intpart, fracpart, e) ==
    DecimalDigits(sign, intpart \o fracpart, Len(fracpart), e)

DecimalAt(sign, body, dot, e) ==
    DecimalParts(sign, SubSeq(body, 1, dot - 1), SubSeq(body, dot + 1, Len(body)), e)

DecimalSplit(sign, body, dots, e) ==
    IF Cardinality(dots) > 1 THEN Raise("InvalidOperation")
    ELSE IF dots = {} THEN DecimalAt(sign, body, Len(body) + 1, e)
    ELSE DecimalAt(sign, body, CHOOSE i \in dots : TRUE, e)

\* text with its sign, if it starts with one, taken off, and the sign
Unsigned(s) == IF s # <<>> /\ Head(s) \in {"-", "+"} THEN Tail(s) ELSE s
SignOf(s) == IF s # <<>> /\ Head(s) = "-" THEN 1 ELSE 0

\* The digits with the exponent that follows "e" or "E": an optional sign
\* and at least one digit.
DecimalExponent(sign, body, exptext) ==
    IF Unsigned(exptext) # <<>> /\ IsDigits(Unsigned(exptext))
    THEN DecimalSplit(sign, body, DotPositions(body),
             IF SignOf(exptext) = 1 THEN 0 - IntOf(Unsigned(exptext))
             ELSE IntOf(Unsigned(exptext)))
    ELSE Raise("InvalidOperation")

\* A number: digits with at most one ".", at least one digit, and an
\* optional exponent after the first "e" or "E".
DecimalNumber(sign, body, es) ==
    IF es = {} THEN DecimalSplit(sign, body, DotPositions(body), 0)
    ELSE DecimalExponent(sign,
             SubSeq(body, 1, (CHOOSE i \in es : \A j \in es : i <= j) - 1),
             SubSeq(body, (CHOOSE i \in es : \A j \in es : i <= j) + 1, Len(body)))

\* A NaN with its diagnostic digits, leading zeros dropped.
DecimalNaN(sign, diag, special) ==
    IF IsDigits(diag) THEN SpecialDec(sign, lstrip_zeros(diag), special)
    ELSE Raise("InvalidOperation")

\* "Inf", "Infinity", "NaN" and "sNaN" in any letter case, or a number.
DecimalLower(sign, body, low) ==
    IF low \in {<<"i", "n", "f">>, <<"i", "n", "f", "i", "n", "i", "t", "y">>}
    THEN SpecialDec(sign, <<"0">>, "F")
    ELSE IF startswith(low, <<"n", "a", "n">>)
    THEN DecimalNaN(sign, SubSeq(body, 4, Len(body)), "n")
    ELSE IF startswith(low, <<"s", "n", "a", "n">>)
    THEN DecimalNaN(sign, SubSeq(body, 5, Len(body)), "N")
    ELSE DecimalNumber(sign, body, {i \in 1..Len(body) : body[i] \in {"e", "E"}})

DecimalBody(sign, body) == DecimalLower(sign, body, lower(body))

DecimalSigned(s) == DecimalBody(SignOf(s), Unsigned(s))

\* Decimal(str): surrounding whitespace and every underscore are ignored;
\* then an optional sign and a number, an infinity or a NaN; anything else
\* raises decimal.InvalidOperation.  The value is exact, whatever the
\* context's precision.  The exponent is an integer of the model checker:
\* the text of an exponent has at most 9 digits here.
Decimal(str) == DecimalSigned(remove_underscores(strip(str)))

\* not d, d == 0
IsZero(d) == d.special = "" /\ d.digits = <<"0">>
\* d > 0, d < 0 for a d that is no NaN
IsPositive(d) == d.sign = 0 /\ ~IsZero(d)
IsNegative(d) == d.sign = 1 /\ ~IsZero(d)

\* Decimal.is_finite()
is_finite(d) == d.special = ""

\* ROUND_HALF_EVEN on the digits int cut after the first prec of them: the
\* cut digits are more than half a unit, or exactly half with an odd digit
\* before them.
rounds_up(int, prec) ==
    /\ int[prec + 1] \in {"5", "6", "7", "8", "9"}
    /\ ~ ( /\ int[prec + 1] = "5"
           /\ \A i \in (prec + 2)..Len(int) : int[i] = "0"
           /\ (prec = 0 \/ int[prec] \in {"0", "2", "4", "6", "8"}) )

\* The rounded coefficient at exponent exp_min, one digit shorter and one
\* exponent up when the carry made it longer than the precision.
fix_carried(sign, coeff, exp_min) ==
    IF Len(coeff) > PREC
    THEN IF exp_min + 1 > Etop THEN Raise("Overflow")
         ELSE Dec(sign, SubSeq(coeff, 1, Len(coeff) - 1), exp_min + 1)
    ELSE Dec(sign, coeff, exp_min)

\* The coefficient int rounded to its first digits digits.
fix_rounded(sign, int, digits, exp_min) ==
    IF rounds_up(int, digits)
    THEN fix_carried(sign, Increment(Coefficient(SubSeq(int, 1, digits))), exp_min)
    ELSE Dec(sign, Coefficient(SubSeq(int, 1, digits)), exp_min)

\* d rounded to the exponent exp_min, which is above its own.
fix_round(d, digits, exp_min) ==
    IF digits < 0 THEN fix_rounded(d.sign, <<"1">>, 0, exp_min)
    ELSE fix_rounded(d.sign, d.digits, digits, exp_min)

fix_at(d, exp_min) ==
    IF d.exp < exp_min THEN fix_round(d, Len(d.digits) + d.exp - exp_min, exp_min)
    ELSE d

\* Decimal._fix_nan: the payload keeps its last PREC digits.
fix_nan(d) ==
    IF Len(d.digits) > PREC
    THEN SpecialDec(d.sign, lstrip_zeros(SubSeq(d.digits, Len(d.digits) - PREC + 1, Len(d.digits))),
                    d.special)
    ELSE d

\* Decimal._fix(context) in the default context: the result of an
\* operation is rounded to PREC digits and to the exponent range; a result
\* above the range raises decimal.Overflow.
fix(d) ==
    IF d.special \in {"n", "N"} THEN fix_nan(d)
    ELSE IF d.special = "F" THEN d
    ELSE IF IsZero(d)
    THEN Dec(d.sign, d.digits, IF d.exp < Etiny THEN Etiny ELSE IF d.exp > EMAX THEN EMAX ELSE d.exp)
    ELSE IF Len(d.digits) + d.exp - PREC > Etop THEN Raise("Overflow")
    ELSE IF Len(d.digits) + d.exp - PREC < Etiny THEN fix_at(d, Etiny)
    ELSE fix_at(d, Len(d.digits) + d.exp - PREC)

\* Decimal.__neg__: the sign is turned, that of a zero is made positive,
\* and the result is rounded as the context says; a quiet NaN keeps its
\* sign and a signaling NaN raises.
Neg(d) ==
    IF d.special = "N" THEN Raise("InvalidOperation")
    ELSE IF d.special = "n" THEN fix_nan(d)
    ELSE IF IsZero(d) THEN fix([d EXCEPT !.sign = 0])
    ELSE fix([d EXCEPT !.sign = 1 - @])

Zeros(n) == [i \in 1..n |-> "0"]

\* "%+d" % n
SignedIntStr(n) == IF n < 0 THEN <<"-">> \o IntStr(0 - n) ELSE <<"+">> \o IntStr(n)

\* The digits with the decimal point after the first dotplace of them, and
\* the exponent that is left over, if any.
DecimalStrAt(d, leftdigits, dotplace) ==
    (IF d.sign = 1 THEN <<"-">> ELSE <<>>)
    \o (IF dotplace <= 0 THEN <<"0", ".">> \o Zeros(0 - dotplace) \o d.digits
        ELSE IF dotplace >= Len(d.digits) THEN d.digits \o Zeros(dotplace - Len(d.digits))
        ELSE SubSeq(d.digits, 1, dotplace) \o <<".">> \o SubSeq(d.digits, dotplace + 1, Len(d.digits)))
    \o (IF leftdigits = dotplace THEN <<>> ELSE <<"E">> \o SignedIntStr(leftdigits - dotplace))

\* Decimal.__str__: plain notation when the exponent is at most 0 and the
\* first digit no more than six places behind the point, scientific
\* notation with one digit before the point otherwise.
DecimalStr(d) ==
    IF d.special = "F"
    THEN (IF d.sign = 1 THEN <<"-">> ELSE <<>>) \o <<"I", "n", "f", "i", "n", "i", "t", "y">>
    ELSE IF d.special = "n"
    THEN (IF d.sign = 1 THEN <<"-">> ELSE <<>>) \o <<"N", "a", "N">> \o d.digits
    ELSE IF d.special = "N"
    THEN (IF d.sign = 1 THEN <<"-">> ELSE <<>>) \o <<"s", "N", "a", "N">> \o d.digits
    ELSE IF d.exp <= 0 /\ Len(d.digits) + d.exp > -6
    THEN DecimalStrAt(d, Len(d.digits) + d.exp, Len(d.digits) + d.exp)
    ELSE DecimalStrAt(d, Len(d.digits) + d.exp, 1)

\* beancount.core.number.D: the empty text is Decimal(); of any other text
\* the commas and spaces are removed and the rest is parsed as a Decimal; a
\* failure is raised as ValueError.
D_handle(r) == IF IsRaise(r) THEN Raise("ValueError") ELSE r

D(strord) ==
    IF strord = <<>> THEN Dec(0, <<"0">>, 0)
    ELSE D_handle(Decimal(SelectSeq(strord, LAMBDA c : c \notin {",", " "})))

\* ------------------------------------------------------------ constants

DEFAULT_CURRENCY == <<"N", "O", "K">>
PAYMENT_DESCRIPTION == <<"I", "n", "n", "b", "e", "t", "a", "l", "i", "n", "g">>
BALANCE_FORWARD_DESCRIPTION ==
    <<"S", "k", "y", "l", "d", "i", "g", " ", "b", "e", "l", "ø", "p", " ",
      "f", "r", "a", " ", "f", "o", "r", "r", "i", "g", "e", " ",
      "f", "a", "k", "t", "u", "r", "a">>
EXPECTED_HEADERS ==
    << Str(<<"D", "a", "t", "o">>),
       Str(<<"B", "e", "l", "ø", "p", "e", "t", " ", "g", "j", "e", "l", "d", "e", "r">>),
       Str(<<"V", "a", "l", "u", "t", "a">>),
       Str(<<"K", "u", "r", "s">>),
       Str(<<"I", "n", "n">>),
       Str(<<"U", "t">>) >>

\* ------------------------------------------------------------ number cells

\* "%02d" % n
TwoDigits(n) == IF n < 10 THEN <<"0">> \o IntStr(n) ELSE IntStr(n)

\* date.isoformat() of day d of January 2024
isoformat(d) == <<"2", "0", "2", "4", "-", "0", "1", "-">> \o TwoDigits(d)

\* str(value) of a cell that is not a str: an int or float is modelled by
\* its str() text, a bool prints as True or False, a date in ISO format
\* and a datetime, of midnight, with the time after it.
PyStr(value) ==
    CASE value.t \in {"int", "float"} -> value.s
      [] value.t = "bool" -> IF value.b THEN <<"T", "r", "u", "e">>
                             ELSE <<"F", "a", "l", "s", "e">>
      [] value.t = "date" -> isoformat(value.d)
      [] value.t = "datetime" ->
            isoformat(value.d) \o <<" ", "0", "0", ":", "0", "0", ":", "0", "0">>

\* Variant of parse_cleaned: empty text is the number zero.
parse_cleaned_zero(cleaned) ==
    IF cleaned = <<>> THEN Dec(0, <<"0">>, 0) ELSE Decimal(cleaned)

\* lines 79-81
parse_cleaned(cleaned) == IF cleaned = <<>> THEN None ELSE Decimal(cleaned)

\* _parse_norwegian_number(value)
_parse_norwegian_number(value) ==
    IF IsNone(value) THEN None
    ELSE IF value.t \in {"int", "float", "bool"} THEN Decimal(PyStr(value))
    ELSE IF value.t = "str" THEN parse_cleaned(replace_comma(strip(value.s)))
    ELSE Decimal(PyStr(value))

\* ------------------------------------------------------------ models.py

RawTransaction(date, description, foreign_currency, exchange_rate, credit, debit) ==
    [t |-> "RawTransaction", date |-> date, description |-> description,
     foreign_currency |-> foreign_currency, exchange_rate |-> exchange_rate,
     credit |-> credit, debit |-> debit]

ExcelFileData(transactions, sheet_name) ==
    [t |-> "ExcelFileData", transactions |-> transactions, sheet_name |-> sheet_name]

\* ------------------------------------------------------------ the file

\* A file on disk: its path, whether the path names nothing, bytes that
\* are no workbook, or a workbook; the active sheet's title, its first row
\* and its data rows (rows 2 .. max_row), each a tuple of six cell values.
File(path, kind, title, header, rows) ==
    [path |-> path, kind |-> kind, title |-> title, header |-> header, rows |-> rows]

\* The last position of c among the first n characters of s, 0 when it is
\* not among them.
RECURSIVE rfind_in(_, _, _)
rfind_in(s, c, n) ==
    IF n = 0 THEN 0 ELSE IF s[n] = c THEN n ELSE rfind_in(s, c, n - 1)

\* s.rfind(c), counted from 1: the last position of c in s, 0 when it has none
rfind(s, c) == rfind_in(s, c, Len(s))

\* PurePosixPath(path).name: the last component of the path that is
\* neither empty nor ".", the empty text when there is none.
RECURSIVE name(_)
name_from(path, sep) ==
    IF SubSeq(path, sep + 1, Len(path)) \in {<<>>, <<".">>}
    THEN IF sep = 0 THEN <<>> ELSE name(SubSeq(path, 1, sep - 1))
    ELSE SubSeq(path, sep + 1, Len(path))

name(path) == name_from(path, rfind(path, "/"))

suffix_from(nm, dot) ==
    IF 1 < dot /\ dot < Len(nm) THEN SubSeq(nm, dot, Len(nm)) ELSE <<>>

\* Path(filepath).suffix: the text from the last "." of the name, empty
\* when the name has no "." after its first character or ends with it.
suffix(path) == suffix_from(name(path), rfind(name(path), "."))

splitext_from(p, sep, dot) ==
    IF dot > sep /\ \E k \in (sep + 1)..(dot - 1) : p[k] # "."
    THEN SubSeq(p, dot, Len(p))
    ELSE <<>>

\* os.path.splitext(p)[-1]: the text from the last "." when it comes
\* after the last "/" and after a character of the name that is no ".".
splitext(p) == splitext_from(p, rfind(p, "/"), rfind(p, "."))

XLSX == <<".", "x", "l", "s", "x">>

\* openpyxl's SUPPORTED_FORMATS
SUPPORTED_FORMATS ==
    { XLSX, <<".", "x", "l", "s", "m">>, <<".", "x", "l", "t", "x">>, <<".", "x", "l", "t", "m">> }

\* openpyxl.load_workbook(filepath, read_only=True, data_only=True): raises
\* for an unsupported extension, a missing file and a file that is no
\* workbook; otherwise the workbook is readable.
load_workbook(file) ==
    IF lower(splitext(file.path)) \notin SUPPORTED_FORMATS THEN Raise("InvalidFileException")
    ELSE IF file.kind = "missing" THEN Raise("FileNotFoundError")
    ELSE IF file.kind = "corrupt" THEN Raise("BadZipFile")
    ELSE [t |-> "Workbook", title |-> file.title, header |-> file.header, rows |-> file.rows]

\* ws.cell(row, column).value, values being the cells the row has: None
\* for a column the row does not reach.
cell(values, column) == IF column <= Len(values) THEN values[column] ELSE None

\* ------------------------------------------------------------ fingerprint

\* headers == EXPECTED_HEADERS (lines 101-104), False on an exception
\* (lines 105-106)
headers_match(wb) ==
    IF IsRaise(wb) THEN BoolCell(FALSE)
    ELSE BoolCell([col \in 1..6 |-> cell(wb.header, col)] = EXPECTED_HEADERS)

\* Variant of _is_dnb_mastercard_file: the extension compared as written.
_is_dnb_mastercard_file_case_sensitive(file) ==
    IF suffix(file.path) # XLSX THEN BoolCell(FALSE)
    ELSE headers_match(load_workbook(file))

\* _is_dnb_mastercard_file(filepath)
_is_dnb_mastercard_file(file) ==
    IF lower(suffix(file.path)) # XLSX THEN BoolCell(FALSE)
    ELSE headers_match(load_workbook(file))

\* ------------------------------------------------------------ row decoder

\* Python truth value of a cell.
Truthy(v) ==
    CASE v.t = "None" -> FALSE
      [] v.t = "str" -> v.s # <<>>
      [] v.t = "int" -> v.s # <<"0">>
      [] v.t = "float" -> v.s \notin {<<"0", ".", "0">>, <<"-", "0", ".", "0">>}
      [] v.t = "bool" -> v.b
      [] OTHER -> TRUE

\* txn_date of a row (lines 165-170)
txn_date(date_val) ==
    IF date_val.t \in {"datetime", "date"} THEN DateCell(date_val.d) ELSE None

\* description.strip() if description else None
strip_description(description) ==
    IF Truthy(description)
    THEN IF description.t = "str" THEN Str(strip(description.s))
         ELSE Raise("AttributeError")
    ELSE None

\* valuta.strip() if isinstance(valuta, str) else None
strip_valuta(valuta) == IF valuta.t = "str" THEN Str(strip(valuta.s)) ELSE None

\* The validation of a Decimal | None field: a Decimal that is not finite
\* is refused.
valid_decimal(v) == v.t = "Decimal" => is_finite(v)

\* RawTransaction(...) (lines 172-179): the first exception among the
\* arguments, in evaluation order; the ValidationError of the model when
\* the exchange rate, the inflow or the outflow is refused; or the record.
make_raw_txn(args, bad) ==
    IF bad # {} THEN args[CHOOSE i \in bad : \A j \in bad : i <= j]
    ELSE IF \E i \in 4..6 : ~valid_decimal(args[i]) THEN Raise("ValidationError")
    ELSE RawTransaction(args[1], args[2], args[3], args[4], args[5], args[6])

raw_txn_of(args) == make_raw_txn(args, {i \in 1..Len(args) : IsRaise(args[i])})

\* The arguments of RawTransaction(...) for a row, each the value or the
\* exception its expression raises.
row_args(row) ==
    << txn_date(cell(row, 1)), strip_description(cell(row, 2)), strip_valuta(cell(row, 3)),
       _parse_norwegian_number(cell(row, 4)), _parse_norwegian_number(cell(row, 5)),
       _parse_norwegian_number(cell(row, 6)) >>

\* One iteration of the row loop of _parse_excel_file: "skip" for an empty
\* row, the RawTransaction, or the exception the iteration raises.
decode_row(row) ==
    IF IsNone(cell(row, 1)) /\ IsNone(cell(row, 2)) THEN [t |-> "skip"]
    ELSE raw_txn_of(row_args(row))

\* The narration pattern of the set-ups, and description of sample rows.
REMA == <<"R", "E", "M", "A">>

\* A description no pattern of the set-ups is found in.
KIWI == <<"K", "I", "W", "I">>

\* A number with an exponent above Emax.
HugeNumber == <<"1", "e", "1", "0", "0", "0", "0", "0", "0">>

\* A number of 29 digits, one more than the precision of the arithmetic.
LongNumber == <<"1", "0", "0", "0", "0", "0", "0", "0", "0", "0", "0", "0", "0", "0", "0", "0", "0", "0", "0", "0", "0", "0", "0", "0", "0", "0", "0", "0", "5">>

\* The data rows the workbooks are built from: date, description, currency,
\* exchange rate, inflow, outflow.
RowSamples ==
    { \* a purchase: outflow as a float cell
      << DateTimeCell(1), Str(REMA), None, None, None, FloatCell(<<"1", "5", "0", ".", "5">>) >>,
      \* a payment: inflow as an int cell
      << DateCell(1), Str(PAYMENT_DESCRIPTION), None, None, IntCell(<<"5", "0">>), None >>,
      \* the balance carried forward, with the latest date
      << DateTimeCell(2), Str(BALANCE_FORWARD_DESCRIPTION), None, None, None, IntCell(<<"5", "0">>) >>,
      \* padded label, Norwegian number texts, inflow and outflow both set
      << DateCell(1), Str(<<" ">> \o PAYMENT_DESCRIPTION \o <<" ">>),
         Str(<<" ", "E", "U", "R">>), Str(<<"1", "1", ",", "5">>),
         Str(<<"1", "5", "0", ",", "5", "0">>), IntCell(<<"2", "0">>) >>,
      \* no date and no description
      << None, None, None, None, IntCell(<<"5", "0">>), None >>,
      \* no date
      << None, Str(REMA), None, None, None, IntCell(<<"5", "0">>) >>,
      \* the date cell holds text, no description
      << Str(<<"x">>), None, None, None, IntCell(<<"5", "0">>), None >>,
      \* no amount
      << DateTimeCell(1), Str(REMA), None, None, None, None >>,
      \* the label in lower case, a zero inflow
      << DateCell(1), Str(<<"i">> \o Tail(PAYMENT_DESCRIPTION)), None, None, IntCell(<<"0">>), None >>,
      \* the label as a proper prefix, a negative outflow
      << DateCell(2), Str(PAYMENT_DESCRIPTION \o <<"e", "r">>), None, None, None, IntCell(<<"-", "5">>) >>,
      \* blank description and currency, a negative inflow, blank outflow text
      << DateCell(1), Str(<<" ", " ">>), Str(<<" ">>), None, IntCell(<<"-", "5">>), Str(<<" ">>) >>,
      \* exchange-rate text with several commas, inflow text that is no number
      << DateCell(1), Str(REMA), None, Str(<<"1", ",", "2", ",", "3">>), Str(<<"x">>), None >>,
      \* a date and an outflow, no description
      << DateCell(2), None, None, None, None, IntCell(<<"5", "0">>) >>,
      \* a description that is no text
      << DateCell(1), IntCell(<<"1", "2", "3">>), None, None, None, IntCell(<<"5", "0">>) >>,
      \* a description between a tab and a line end, an outflow of 29 digits
      << DateCell(1), Str(<<"\t">> \o REMA \o <<"\n">>), None, None, None, Str(LongNumber) >>,
      \* an inflow text that reads as infinity
      << DateCell(1), Str(REMA), None, None, Str(<<"I", "n", "f">>), None >>,
      \* an outflow whose negation is beyond the exponents of the arithmetic
      << DateCell(1), Str(KIWI), None, None, None, Str(HugeNumber) >> }

\* decode_row of the sample rows, computed once.
DecodedSamples == {[row |-> row, val |-> decode_row(row)] : row \in RowSamples}

\* decode_row(row), looked up for a sample row.
decode_sample(row) ==
    IF row \in RowSamples THEN (CHOOSE s \in DecodedSamples : s.row = row).val
    ELSE decode_row(row)

\* Variant of decode_next: a failing row ends the loop and the rows
\* decoded before it are kept.
RECURSIVE decode_rows(_, _)
decode_next_partial(rows, acc, r) ==
    IF IsRaise(r) THEN [t |-> "list", v |-> acc]
    ELSE IF r.t = "skip" THEN decode_rows(Tail(rows), acc)
    ELSE decode_rows(Tail(rows), Append(acc, r))

\* The row loop (lines 152-181): the transactions appended, or the
\* exception that ended the loop.
decode_next(rows, acc, r) ==
    IF IsRaise(r) THEN r
    ELSE IF r.t = "skip" THEN decode_rows(Tail(rows), acc)
    ELSE decode_rows(Tail(rows), Append(acc, r))

decode_rows(rows, acc) ==
    IF rows = <<>> THEN [t |-> "list", v |-> acc]
    ELSE decode_next(rows, acc, decode_sample(Head(rows)))

parse_rows(title, txns) ==
    IF IsRaise(txns) THEN txns ELSE ExcelFileData(txns.v, Str(title))

parse_workbook(wb) ==
    IF IsRaise(wb) THEN wb ELSE parse_rows(wb.title, decode_rows(wb.rows, <<>>))

\* The try block of _parse_excel_file (lines 147-184).
parse_try(file) == parse_workbook(load_workbook(file))

\* The except clause of _parse_excel_file (lines 186-189).
parse_except(e) == ExcelFileData(<<>>, None)

\* Variant of parse_handle: no except clause.
parse_unhandled(r) == r

parse_handle(r) == IF IsRaise(r) THEN parse_except(r) ELSE r

\* Importer._parse_excel_file(filepath)
_parse_excel_file(file) == parse_handle(parse_try(file))

\* ------------------------------------------------------------ rule engine

Posting(account, number, currency) ==
    [account |-> account, units |-> [number |-> number, currency |-> currency]]

\* pattern occurs in text
Contains(text, pattern) ==
    \E i \in 0..(Len(text) - Len(pattern)) :
        SubSeq(text, i + 1, i + Len(pattern)) = pattern

\* The patterns of the list that match the narration, by position.
Matching(patterns, narration) ==
    {i \in 1..Len(patterns) : Contains(narration, patterns[i].narration)}

\* The exact negation of a number: the sign turned, a zero positive.
Negated(d) == IF IsZero(d) THEN [d EXCEPT !.sign = 0] ELSE [d EXCEPT !.sign = 1 - @]

\* The balancing posting: the negated amount of the primary posting.
add_posting(txn, account) ==
    [txn EXCEPT !.postings =
        Append(@, Posting(account, Negated(txn.postings[1].units.number),
                          txn.postings[1].units.currency))]

\* The first matching pattern adds the balancing posting on its account;
\* with no match and a default account the balancing posting goes there;
\* otherwise the record is returned as it is.
classify(self, txn, hits) ==
    IF hits # {}
    THEN add_posting(txn, self.transaction_patterns[CHOOSE i \in hits : \A j \in hits : i <= j].account)
    ELSE IF ~IsNone(self.default_account) THEN add_posting(txn, self.default_account.s)
    ELSE txn

\* ClassifierMixin.finalize(txn, raw_txn), the external rule engine.  It
\* may raise or return None: it does so for the narrations that hold
\* classifier.on, as classifier.fault says.
finalize(self, classifier, txn, raw_txn) ==
    IF classifier.fault = "raise" /\ Contains(txn.narration, classifier.on)
    THEN Raise("ClassifierError")
    ELSE IF classifier.fault = "None" /\ Contains(txn.narration, classifier.on)
    THEN None
    ELSE classify(self, txn, Matching(self.transaction_patterns, txn.narration))

\* ------------------------------------------------------------ extract

Continue(why) == [t |-> "continue", why |-> why]

\* description = raw_txn.description or ""
description_or_empty(raw_txn) ==
    IF Truthy(raw_txn.description) THEN raw_txn.description.s ELSE <<>>

\* Variant of skips_payment: the label anywhere in the description.
skips_payment_substring(self, description) ==
    self.skip_payments /\ Contains(description, PAYMENT_DESCRIPTION)

\* Variant of skips_balance_forward: the flag skips the payment rows too.
skips_balance_forward_any_label(self, description) ==
    self.skip_balance_forward
        /\ description \in {BALANCE_FORWARD_DESCRIPTION, PAYMENT_DESCRIPTION}

\* The skip tests of lines 252 and 258.
skips_balance_forward(self, description) ==
    self.skip_balance_forward /\ description = BALANCE_FORWARD_DESCRIPTION

skips_payment(self, description) ==
    self.skip_payments /\ description = PAYMENT_DESCRIPTION

\* A variant of amount_decimal: the outflow taken over without its sign
\* turned.
amount_unsigned(raw_txn) ==
    IF ~IsNone(raw_txn.credit) THEN raw_txn.credit
    ELSE IF ~IsNone(raw_txn.debit) THEN raw_txn.debit
    ELSE None

\* amount_decimal (lines 264-271); None when the row has no amount.
amount_decimal(raw_txn) ==
    IF ~IsNone(raw_txn.credit) THEN raw_txn.credit
    ELSE IF ~IsNone(raw_txn.debit) THEN Neg(raw_txn.debit)
    ELSE None

\* Variant of txn_type: the outflow decides.
txn_type_by_debit(raw_txn) == IF ~IsNone(raw_txn.debit) THEN "DEBIT" ELSE "CREDIT"

\* metadata["type"] (lines 277-280)
txn_type(raw_txn) == IF ~IsNone(raw_txn.credit) THEN "CREDIT" ELSE "DEBIT"

\* Variant of new_metadata: the row number in the sheet, the header row
\* counted.
new_metadata_sheet_row(filepath, idx, type) ==
    [filename |-> filepath, lineno |-> idx + 1, type |-> type]

\* data.new_metadata(filepath, idx) with the type added
new_metadata(filepath, idx, type) == [filename |-> filepath, lineno |-> idx, type |-> type]

\* Variant of Transaction: the primary posting in the default currency.
Transaction_default_currency(self, filepath, idx, raw_txn, description, number) ==
    [t |-> "Transaction",
     meta |-> new_metadata(filepath, idx, txn_type(raw_txn)),
     date |-> raw_txn.date,
     flag |-> self.flag,
     payee |-> None,
     narration |-> description,
     postings |-> << Posting(self.account_name, number, DEFAULT_CURRENCY) >>]

\* data.Transaction(...) with the primary posting (lines 283-298)
Transaction(self, filepath, idx, raw_txn, description, number) ==
    [t |-> "Transaction",
     meta |-> new_metadata(filepath, idx, txn_type(raw_txn)),
     date |-> raw_txn.date,
     flag |-> self.flag,
     payee |-> None,
     narration |-> description,
     postings |-> << Posting(self.account_name, number, self.currency) >>]

\* lines 303-308
row_finalized(finalized_txn) ==
    IF IsRaise(finalized_txn) THEN finalized_txn
    ELSE IF IsNone(finalized_txn) THEN Continue("finalization")
    ELSE finalized_txn

\* Variant of row_posting: the record is kept as built, not as finalized.
row_posting_unfinalized(self, classifier, filepath, idx, raw_txn, description, number) ==
    IF IsRaise(number) THEN number
    ELSE Transaction(self, filepath, idx, raw_txn, description, number)

\* lines 283-301, number being D(str(amount_decimal))
row_posting(self, classifier, filepath, idx, raw_txn, description, number) ==
    IF IsRaise(number) THEN number
    ELSE row_finalized(finalize(self, classifier,
             Transaction(self, filepath, idx, raw_txn, description, number), raw_txn))

\* lines 264-271
row_amount(self, classifier, filepath, idx, raw_txn, description, amount) ==
    IF IsNone(amount) THEN Continue("no amount")
    ELSE IF IsRaise(amount) THEN amount
    ELSE row_posting(self, classifier, filepath, idx, raw_txn, description,
                     D(DecimalStr(amount)))

\* lines 252-261
row_dated(self, classifier, filepath, idx, raw_txn, description) ==
    IF skips_balance_forward(self, description) THEN Continue("balance forward")
    ELSE IF skips_payment(self, description) THEN Continue("payment")
    ELSE row_amount(self, classifier, filepath, idx, raw_txn, description,
                    amount_decimal(raw_txn))

\* Variant of row_try: no test of the date.
row_try_undated(self, classifier, filepath, idx, raw_txn) ==
    row_dated(self, classifier, filepath, idx, raw_txn, description_or_empty(raw_txn))

\* The try block of the row loop of extract (lines 244-308): "continue" when
\* the row is skipped, the finalized Transaction when it is appended, or
\* the exception the block raises.
row_try(self, classifier, filepath, idx, raw_txn) ==
    IF IsNone(raw_txn.date) THEN Continue("missing date")
    ELSE row_dated(self, classifier, filepath, idx, raw_txn, description_or_empty(raw_txn))

\* The except clause of the row loop (lines 310-313).
row_except(e) == Continue("error")

row_handle(r) == IF IsRaise(r) THEN row_except(r) ELSE r

\* One iteration of the row loop of extract.
extract_row(self, classifier, filepath, idx, raw_txn) ==
    row_handle(row_try(self, classifier, filepath, idx, raw_txn))

\* Variant of entries_after: the record is put at the front.
entries_after_prepend(entries, r) ==
    IF r.t = "Transaction" THEN <<r>> \o entries ELSE entries

\* Variant of entries_after: a failed row discards what was collected.
entries_after_reset(entries, r) ==
    IF r.t = "Transaction" THEN Append(entries, r)
    ELSE IF r.why \in {"error", "finalization"} THEN <<>>
    ELSE entries

\* Variant of new_entries: the list of the previous call is kept.
stale_entries(old) == old

\* entries after one iteration of the loop
entries_after(entries, r) == IF r.t = "Transaction" THEN Append(entries, r) ELSE entries

\* entries = [] (line 232)
new_entries(old) == <<>>

\* The loop of extract over the transactions from position idx + 1.
RECURSIVE extract_from(_, _, _, _, _, _)
extract_from(self, classifier, filepath, txns, idx, entries) ==
    IF idx >= Len(txns) THEN entries
    ELSE extract_from(self, classifier, filepath, txns, idx + 1,
             entries_after(entries,
                 extract_row(self, classifier, filepath, idx + 1, txns[idx + 1])))

List(v) == [t |-> "list", v |-> v]

\* lines 235-315, excel_data being what _parse_excel_file returned; an
\* exception of that call is not caught here.
extract_parsed(self, classifier, filepath, excel_data) ==
    IF IsRaise(excel_data) THEN excel_data
    ELSE List(extract_from(self, classifier, filepath, excel_data.transactions, 0, <<>>))

\* Importer.extract(filepath, existing_entries) as a function of the file.
extract(self, classifier, file) ==
    extract_parsed(self, classifier, file.path, _parse_excel_file(file))

\* ------------------------------------------------------------ date

\* dates (lines 209-213); an exception of _parse_excel_file is not caught.
dates(parsed_data) ==
    IF IsRaise(parsed_data) THEN parsed_data
    ELSE List(SelectSeq([i \in 1..Len(parsed_data.transactions) |-> parsed_data.transactions[i].date],
              LAMBDA d : ~IsNone(d)))

\* Variant of max_date: the earliest date.
min_date(ds) == DateCell(CHOOSE d \in {ds[i].d : i \in 1..Len(ds)} :
                            \A j \in 1..Len(ds) : d <= ds[j].d)

\* max(dates)
max_date(ds) == DateCell(CHOOSE d \in {ds[i].d : i \in 1..Len(ds)} :
                            \A j \in 1..Len(ds) : ds[j].d <= d)

\* Variant of latest: always the current date.
latest_today(ds, today) ==
    IF IsRaise(ds) THEN ds ELSE DateCell(today)

\* lines 215-218
latest(ds, today) ==
    IF IsRaise(ds) THEN ds
    ELSE IF ds.v = <<>> THEN DateCell(today)
    ELSE max_date(ds.v)

\* Importer.date(filepath), today being datetime.date.today()
date(file, today) == latest(dates(_parse_excel_file(file)), today)

\* Importer.identify(filepath)
identify(file) == _is_dnb_mastercard_file(file)

\* ------------------------------------------------------------ bounds and inputs

\* The longest workbook, in data rows.
MaxRows == 2
\* The calendar days datetime.date.today() may return.
MaxDay == 2

Days == 1..MaxDay

Groceries == <<"E", "x", "p", "e", "n", "s", "e", "s", ":", "G", "r", "o", "c", "e", "r", "i", "e", "s">>
Unknown == <<"E", "x", "p", "e", "n", "s", "e", "s", ":", "U", "n", "k", "n", "o", "w", "n">>
AccountName == <<"L", "i", "a", "b", "i", "l", "i", "t", "i", "e", "s", ":", "D", "N", "B">>

SeqsUpTo(S, n) == UNION {[1..k -> S] : k \in 0..n}

PathXlsx == <<"a", ".", "x", "l", "s", "x">>
PathUpper == <<"a", ".", "X", "L", "S", "X">>
PathTxt == <<"a", ".", "t", "x", "t">>
PathXlsm == <<"a", ".", "x", "l", "s", "m">>
PathDir == <<"d", ".", "x", "l", "s", "x", "/", "a">>
Title == <<"t">>

\* First rows: the expected one, the expected one with a seventh column,
\* one with the last label in lower case, one with three other labels, and
\* that of an empty sheet.
HeaderSamples ==
    { EXPECTED_HEADERS,
      EXPECTED_HEADERS \o << Str(<<"S", "a", "l", "d", "o">>) >>,
      [EXPECTED_HEADERS EXCEPT ![6] = Str(<<"u", "t">>)],
      << Str(<<"D", "a", "t", "e">>), Str(<<"D", "e", "s", "c">>), Str(<<"A", "m", "t">>),
         None, None, None >>,
      << None, None, None, None, None, None >> }

\* The files: statements of up to MaxRows data rows, and for the
\* fingerprint check header-only workbooks, missing files and files that
\* are no workbook, under three extensions; and a macro-enabled workbook
\* and a workbook without extension in a directory named as a workbook.
Files ==
    {File(PathXlsx, "workbook", Title, EXPECTED_HEADERS, rows) : rows \in SeqsUpTo(RowSamples, MaxRows)}
    \cup {File(path, "workbook", Title, header, <<>>) :
             path \in {PathXlsx, PathUpper, PathTxt}, header \in HeaderSamples}
    \cup {File(path, kind, Title, EXPECTED_HEADERS, <<>>) :
             path \in {PathXlsx, PathUpper, PathTxt}, kind \in {"missing", "corrupt"}}
    \cup {File(path, "workbook", Title, EXPECTED_HEADERS, <<>>) : path \in {PathXlsm, PathDir}}

\* The longest statement of the runs about a row that fails, in data rows.
MaxIsolationRows == 4

\* The rows of those statements, all sample rows: a purchase, which the
\* rule engine of two set-ups refuses; a payment; a row whose description
\* starts with the payment label; the row whose outflow cannot be negated;
\* and a blank row.
IsolationRows ==
    { << DateTimeCell(1), Str(REMA), None, None, None, FloatCell(<<"1", "5", "0", ".", "5">>) >>,
      << DateCell(1), Str(PAYMENT_DESCRIPTION), None, None, IntCell(<<"5", "0">>), None >>,
      << DateCell(2), Str(PAYMENT_DESCRIPTION \o <<"e", "r">>), None, None, None, IntCell(<<"-", "5">>) >>,
      << DateCell(1), Str(KIWI), None, None, None, Str(HugeNumber) >>,
      << None, None, None, None, IntCell(<<"5", "0">>), None >> }

\* Statements of up to MaxIsolationRows of these rows.
IsolationFiles ==
    {File(PathXlsx, "workbook", Title, EXPECTED_HEADERS, rows) :
        rows \in SeqsUpTo(IsolationRows, MaxIsolationRows)}

\* Importer.__init__(config, flag, debug): the importer's fields.
Importer(currency, transaction_patterns, default_account, skip_balance_forward, skip_payments) ==
    [account_name |-> AccountName,
     currency |-> currency,
     transaction_patterns |-> transaction_patterns,
     default_account |-> default_account,
     skip_balance_forward |-> skip_balance_forward,
     skip_payments |-> skip_payments,
     flag |-> "*"]

\* Set-ups: no rules, in the default currency; one pattern and a default
\* account, in euro; and an engine that raises, or returns None, for the
\* narrations holding REMA.
Setups ==
    { [currency |-> DEFAULT_CURRENCY, patterns |-> <<>>, default |-> None, fault |-> "ok"],
      [currency |-> <<"E", "U", "R">>,
       patterns |-> << [narration |-> REMA, account |-> Groceries] >>,
       default |-> Str(Unknown), fault |-> "ok"],
      [currency |-> DEFAULT_CURRENCY, patterns |-> <<>>, default |-> None, fault |-> "raise"],
      [currency |-> DEFAULT_CURRENCY, patterns |-> <<>>, default |-> None, fault |-> "None"] }

\* ------------------------------------------------------------ state

VARIABLES
    file,        \* the file on disk
    self,        \* the importer's fields
    classifier,  \* the rule engine's faults
    pc,          \* "idle", or "loop" inside extract's row loop
    excel_data,  \* extract's local: the decoded file
    idx,         \* extract's local: rows of excel_data processed so far
    entries,     \* extract's local: the list being built
    ret,         \* the last call and what it returned
    first        \* what the first extract call returned

vars == <<file, self, classifier, pc, excel_data, idx, entries, ret, first>>

NoCall == [op |-> "none"]
Returned(op, val) == [op |-> op, pending |-> FALSE, val |-> val]
Pending(op) == [op |-> op, pending |-> TRUE]

\* The importers: the set-up without rules under every pair of skip flags,
\* the others under the default flags.
InitFrom(files) ==
    /\ file \in files
    /\ \E s \in Setups, sbf \in BOOLEAN, sp \in BOOLEAN :
          /\ (s.fault = "ok" /\ s.patterns = <<>>) \/ (sbf /\ ~sp)
          /\ self = Importer(s.currency, s.patterns, s.default, sbf, sp)
          /\ classifier = [fault |-> s.fault, on |-> REMA]
    /\ pc = "idle"
    /\ excel_data = ExcelFileData(<<>>, None)
    /\ idx = 0
    /\ entries = <<>>
    /\ ret = NoCall
    /\ first = None

Init == InitFrom(Files)

\* first after an extract call has returned val
first_after(val) == IF IsNone(first) THEN val ELSE first

\* identify(filepath)
Identify ==
    /\ pc = "idle"
    /\ ret' = Returned("identify", identify(file))
    /\ UNCHANGED <<file, self, classifier, pc, excel_data, idx, entries, first>>

\* date(filepath), called on day today
Date ==
    /\ pc = "idle"
    /\ \E today \in Days :
          ret' = [op |-> "date", pending |-> FALSE, val |-> date(file, today), today |-> today]
    /\ UNCHANGED <<file, self, classifier, pc, excel_data, idx, entries, first>>

\* lines 232-239, data being what _parse_excel_file returned
ExtractParsed(data) ==
    /\ excel_data' = data
    /\ entries' = new_entries(entries)
    /\ idx' = 0
    /\ IF IsRaise(data)
       THEN /\ ret' = Returned("extract", data)
            /\ first' = first_after(data)
            /\ pc' = "idle"
       ELSE IF data.transactions = <<>>
       THEN /\ ret' = Returned("extract", List(<<>>))
            /\ first' = first_after(List(<<>>))
            /\ pc' = "idle"
       ELSE /\ ret' = Pending("extract")
            /\ first' = first
            /\ pc' = "loop"

\* extract(filepath, existing_entries) up to the row loop
ExtractCall ==
    /\ pc = "idle"
    /\ ExtractParsed(_parse_excel_file(file))
    /\ UNCHANGED <<file, self, classifier>>

\* one iteration of extract's row loop (lines 242-313)
ExtractRow ==
    /\ pc = "loop"
    /\ idx < Len(excel_data.transactions)
    /\ idx' = idx + 1
    /\ entries' = entries_after(entries,
           extract_row(self, classifier, file.path, idx + 1, excel_data.transactions[idx + 1]))
    /\ UNCHANGED <<file, self, classifier, pc, excel_data, ret, first>>

\* return entries (line 315)
ExtractReturn ==
    /\ pc = "loop"
    /\ idx = Len(excel_data.transactions)
    /\ ret' = Returned("extract", List(entries))
    /\ first' = first_after(List(entries))
    /\ pc' = "idle"
    /\ UNCHANGED <<file, self, classifier, excel_data, idx, entries>>

Next == Identify \/ Date \/ ExtractCall \/ ExtractRow \/ ExtractReturn

Spec == Init /\ [][Next]_vars

\* The importer on the statements of IsolationFiles, under the default
\* skip flags.
IsolationInit ==
    InitFrom(IsolationFiles) /\ self.skip_balance_forward /\ ~self.skip_payments

IsolationSpec == IsolationInit /\ [][Next]_vars

\* Every call that has started returns: the scheduler is the single thread
\* running the call.
FairSpec == Spec /\ WF_vars(ExtractRow) /\ WF_vars(ExtractReturn)

\* ------------------------------------------------------------ properties

\* The rows of excel_data the running or last extract call has processed
\* are 1 .. idx; the record of row i carries lineno i.

\* The description the row loop tests: raw_txn.description, "" when unset.
DescriptionOf(raw_txn) ==
    IF raw_txn.description.t = "str" THEN raw_txn.description.s ELSE <<>>

\* The rule engine raises or returns None for the row.
FinalizeFails(raw_txn) ==
    classifier.fault # "ok" /\ Contains(DescriptionOf(raw_txn), classifier.on)

\* The positions of entries that hold the record of row i.
RecordsOf(i) == {k \in 1..Len(entries) : entries[k].meta.lineno = i}

\* C1: the amount of a row's record is the inflow when the inflow cell is
\* set, whether or not the outflow cell is set too, and the negated outflow
\* when only the outflow cell is set; a row with neither cell set has no
\* record; a dated row with an amount that carries no label and that the
\* rule engine accepts has a record.
C1_SignResolution ==
    \A i \in 1..idx :
        /\ \A k \in RecordsOf(i) :
              /\ ~IsNone(excel_data.transactions[i].credit)
                    => entries[k].postings[1].units.number = excel_data.transactions[i].credit
              /\ IsNone(excel_data.transactions[i].credit)
                    => /\ ~IsNone(excel_data.transactions[i].debit)
                       /\ entries[k].postings[1].units.number
                             = Negated(excel_data.transactions[i].debit)
        /\ ( /\ ~IsNone(excel_data.transactions[i].date)
             /\ DescriptionOf(excel_data.transactions[i])
                   \notin {PAYMENT_DESCRIPTION, BALANCE_FORWARD_DESCRIPTION}
             /\ ~FinalizeFails(excel_data.transactions[i])
             /\ ~(IsNone(excel_data.transactions[i].credit) /\ IsNone(excel_data.transactions[i].debit)) )
           => RecordsOf(i) # {}

\* C2 as stated: every record resolved from the inflow has an amount above
\* zero and every record resolved from the outflow an amount below zero.
C2_StrictSigns ==
    \A k \in 1..Len(entries) :
        IF ~IsNone(excel_data.transactions[entries[k].meta.lineno].credit)
        THEN IsPositive(entries[k].postings[1].units.number)
        ELSE IsNegative(entries[k].postings[1].units.number)

\* The value of d is too small for the arithmetic to keep a digit of it.
RoundsToZero(d) == ~IsZero(d) /\ Len(d.digits) + d.exp <= Etiny

\* C2: the amount of a record resolved from the inflow has the sign of
\* the inflow cell's value.  The amount of a record resolved from the
\* outflow is below zero only when the outflow cell's value is above zero
\* and above zero only when that value is below zero; and it has the
\* opposite sign of that value unless the value is too small for the
\* arithmetic to keep a digit of it.
C2_SignFollowsCell ==
    \A k \in 1..Len(entries) :
        IF ~IsNone(excel_data.transactions[entries[k].meta.lineno].credit)
        THEN /\ IsPositive(entries[k].postings[1].units.number)
                   <=> IsPositive(excel_data.transactions[entries[k].meta.lineno].credit)
             /\ IsNegative(entries[k].postings[1].units.number)
                   <=> IsNegative(excel_data.transactions[entries[k].meta.lineno].credit)
        ELSE /\ IsNegative(entries[k].postings[1].units.number)
                   => IsPositive(excel_data.transactions[entries[k].meta.lineno].debit)
             /\ IsPositive(entries[k].postings[1].units.number)
                   => IsNegative(excel_data.transactions[entries[k].meta.lineno].debit)
             /\ ~RoundsToZero(excel_data.transactions[entries[k].meta.lineno].debit)
                   => /\ IsPositive(excel_data.transactions[entries[k].meta.lineno].debit)
                            => IsNegative(entries[k].postings[1].units.number)
                      /\ IsNegative(excel_data.transactions[entries[k].meta.lineno].debit)
                            => IsPositive(entries[k].postings[1].units.number)

\* An extract call has returned a record resolved from an inflow that is
\* not above zero, and one resolved from an outflow above zero.
C2_Witness ==
    /\ ret.op = "extract" /\ ~ret.pending
    /\ \E k \in 1..Len(entries) :
          /\ ~IsNone(excel_data.transactions[entries[k].meta.lineno].credit)
          /\ ~IsPositive(excel_data.transactions[entries[k].meta.lineno].credit)
    /\ \E k \in 1..Len(entries) :
          /\ IsNone(excel_data.transactions[entries[k].meta.lineno].credit)
          /\ IsPositive(excel_data.transactions[entries[k].meta.lineno].debit)
          /\ IsNegative(entries[k].postings[1].units.number)

\* The row has an amount: an inflow, or an outflow that can be negated.
Resolvable(raw_txn) ==
    \/ ~IsNone(raw_txn.credit)
    \/ ~IsNone(raw_txn.debit) /\ ~IsRaise(Neg(raw_txn.debit))

\* C3: a dated row with an amount that the rule engine accepts is left out
\* exactly when its trimmed description equals the balance-forward label
\* and skip_balance_forward is set, or equals the payment label and
\* skip_payments is set.
C3_SkipPolicy ==
    \A i \in 1..idx :
        ( /\ ~IsNone(excel_data.transactions[i].date)
          /\ Resolvable(excel_data.transactions[i])
          /\ ~FinalizeFails(excel_data.transactions[i]) )
        => ( RecordsOf(i) = {}
             <=> \/ /\ self.skip_balance_forward
                    /\ DescriptionOf(excel_data.transactions[i]) = BALANCE_FORWARD_DESCRIPTION
                 \/ /\ self.skip_payments
                    /\ DescriptionOf(excel_data.transactions[i]) = PAYMENT_DESCRIPTION )

\* With skip_payments set an extract call has left out a payment row and
\* returned the record of a row whose description only starts with the
\* payment label.
C3_Witness ==
    /\ ret.op = "extract" /\ ~ret.pending
    /\ self.skip_payments
    /\ \E i \in 1..idx :
          /\ DescriptionOf(excel_data.transactions[i]) = PAYMENT_DESCRIPTION
          /\ ~IsNone(excel_data.transactions[i].date)
          /\ ~IsNone(excel_data.transactions[i].credit)
          /\ RecordsOf(i) = {}
    /\ \E i \in 1..idx :
          /\ DescriptionOf(excel_data.transactions[i]) # PAYMENT_DESCRIPTION
          /\ Contains(DescriptionOf(excel_data.transactions[i]), PAYMENT_DESCRIPTION)
          /\ RecordsOf(i) # {}

\* seq without its r-th element
RemoveAt(seq, r) == [j \in 1..(Len(seq) - 1) |-> IF j < r THEN seq[j] ELSE seq[j + 1]]

\* The file without its r-th data row.
FileWithout(f, r) == [f EXCEPT !.rows = RemoveAt(@, r)]

\* The data row decodes, reaches the rule engine and is refused there: the
\* engine raises or returns None.
FailsAtFinalize(row) ==
    /\ decode_sample(row).t = "RawTransaction"
    /\ row_try(self, classifier, file.path, 1, decode_sample(row))
          \in {Raise("ClassifierError"), Continue("finalization")}

\* r is an exception raised before the rule engine is called.
RaisedInConstruction(r) == IsRaise(r) /\ r.exc # "ClassifierError"

\* The data row decodes and the construction of its record raises: the
\* try block of the row ends in an exception that is not the rule
\* engine's.
FailsAtConstruction(row) ==
    /\ decode_sample(row).t = "RawTransaction"
    /\ RaisedInConstruction(row_try(self, classifier, file.path, 1, decode_sample(row)))

\* The row fails: the construction of its record raises, or the rule
\* engine raises or returns None.
RowFails(row) == FailsAtConstruction(row) \/ FailsAtFinalize(row)

\* The position among the decoded rows of the r-th data row.
DecodedIndex(rows, r) == Cardinality({q \in 1..r : decode_sample(rows[q]).t # "skip"})

\* A is B but for lineno, which from k on is one more in A.
SameButLineno(A, B, k) ==
    /\ Len(A) = Len(B)
    /\ \A j \in 1..Len(A) :
          A[j] = [B[j] EXCEPT !.meta.lineno = IF @ >= k THEN @ + 1 ELSE @]

\* C4 as stated: when the construction of a row's record raises, or the
\* rule engine raises or returns None for it, what extract returns is what
\* it would return had the row not been in the file.
C4_AsIfRowAbsent ==
    (ret.op = "extract" /\ ~ret.pending) =>
        \A r \in 1..Len(file.rows) :
            RowFails(file.rows[r])
               => ret.val = extract(self, classifier, FileWithout(file, r))

\* C4: when the construction of a row's record raises, or the rule engine
\* raises or returns None for it, that row has no record and the loop goes
\* on: what extract returns is, record for record and in the same order,
\* what it would return had the row not been in the file, except that
\* lineno of the records of the later rows still counts the failed row.
C4_FailureIsolation ==
    (ret.op = "extract" /\ ~ret.pending) =>
        \A r \in 1..Len(file.rows) :
            RowFails(file.rows[r])
               => /\ RecordsOf(DecodedIndex(file.rows, r)) = {}
                  /\ SameButLineno(ret.val.v,
                                   extract(self, classifier, FileWithout(file, r)).v,
                                   DecodedIndex(file.rows, r))

\* The records returned include one of a row before the r-th data row and
\* one of a row after it.
RecordsAround(r) ==
    /\ \E k \in 1..Len(ret.val.v) : ret.val.v[k].meta.lineno < DecodedIndex(file.rows, r)
    /\ \E k \in 1..Len(ret.val.v) : ret.val.v[k].meta.lineno > DecodedIndex(file.rows, r)

\* An extract call has returned the records of two rows with, between
\* them, a row whose record construction raised and a row the rule engine
\* refused.
C4_Witness ==
    /\ ret.op = "extract" /\ ~ret.pending
    /\ \E r \in 1..Len(file.rows) :
          FailsAtConstruction(file.rows[r]) /\ RecordsAround(r)
    /\ \E r \in 1..Len(file.rows) :
          FailsAtFinalize(file.rows[r]) /\ RecordsAround(r)

\* v, or None when v is an exception
Unset(v) == IF IsRaise(v) THEN None ELSE v

\* The record of a row with every field that fails to decode left unset.
LenientRecord(args) ==
    RawTransaction(Unset(args[1]), Unset(args[2]), Unset(args[3]),
                   Unset(args[4]), Unset(args[5]), Unset(args[6]))

\* The data rows with a date or a description cell.
NonBlank(rows) == SelectSeq(rows, LAMBDA row : ~(IsNone(row[1]) /\ IsNone(row[2])))

\* C5 as stated: every data row of a readable workbook with a date or a
\* description decodes to a record, a cell that does not parse or has the
\* wrong type leaving its field unset, the other rows decoded as they are.
C5_BadCellLeavesFieldUnset ==
    (ret.op = "extract" /\ ~IsRaise(load_workbook(file))) =>
        excel_data.transactions =
            [i \in 1..Len(NonBlank(file.rows)) |-> LenientRecord(row_args(NonBlank(file.rows)[i]))]

\* C6: identify returns a truth value, and True exactly when the extension
\* is .xlsx in any letter case, the file is a workbook and the first six
\* cells of its first row are the expected labels.
C6_Identify ==
    ret.op = "identify" =>
        ret.val = BoolCell(/\ file.path \in {PathXlsx, PathUpper}
                           /\ file.kind = "workbook"
                           /\ SubSeq(file.header, 1, 6) = EXPECTED_HEADERS)

\* identify has returned True for a workbook named in upper case whose
\* first row has a seventh column.
C6_Witness ==
    /\ ret.op = "identify"
    /\ ret.val = BoolCell(TRUE)
    /\ file.path = PathUpper
    /\ Len(file.header) > 6

\* The days of the decoded rows that have a date.
DecodedDays(parsed_data) ==
    {parsed_data.transactions[i].date.d :
        i \in {j \in 1..Len(parsed_data.transactions) : ~IsNone(parsed_data.transactions[j].date)}}

\* val is the latest of days, today when there is none
IsLatest(val, days, today) ==
    IF days = {} THEN val = DateCell(today)
    ELSE /\ val.t = "date"
         /\ val.d \in days
         /\ \A d \in days : d <= val.d

\* C7: date returns the latest date among all decoded rows, the rows
\* extract leaves out included, and today when no decoded row has a date.
C7_Date ==
    ret.op = "date" => IsLatest(ret.val, DecodedDays(_parse_excel_file(file)), ret.today)

\* date has returned the date of a balance-forward row that extract
\* leaves out, later than today and than another row's date.
C7_Witness ==
    /\ ret.op = "date"
    /\ ret.today = 1
    /\ ret.val = DateCell(2)
    /\ self.skip_balance_forward
    /\ \E r \in 1..Len(file.rows) :
          /\ file.rows[r][2] = Str(BALANCE_FORWARD_DESCRIPTION)
          /\ file.rows[r][1] = DateTimeCell(2)
    /\ \E r \in 1..Len(file.rows) : file.rows[r][1] \in {DateTimeCell(1), DateCell(1)}

\* The decoder fails on the file: it cannot be opened, or a data row
\* raises.
DecoderFails(f) ==
    \/ IsRaise(load_workbook(f))
    \/ \E r \in 1..Len(f.rows) : IsRaise(decode_sample(f.rows[r]))

\* C10: when opening the file or decoding any of its rows raises, the
\* decoder's result has no transactions and no sheet name, whatever rows
\* came before, and extract returns the empty list.
C10_AllOrNothing ==
    (ret.op = "extract" /\ DecoderFails(file)) =>
        /\ excel_data = ExcelFileData(<<>>, None)
        /\ ret = Returned("extract", List(<<>>))

\* extract has returned the empty list for a workbook whose first data row
\* decodes and whose second raises.
C10_Witness ==
    /\ ret = Returned("extract", List(<<>>))
    /\ Len(file.rows) = 2
    /\ decode_sample(file.rows[1]).t = "RawTransaction"
    /\ IsRaise(decode_sample(file.rows[2]))

\* C8: every extract call on the file returns what the first call
\* returned, whatever identify, date and extract calls came in between, and
\* no step of a call changes the importer's fields.
C8_NoHiddenState ==
    /\ []((ret.op = "extract" /\ ~ret.pending) => ret.val = first)
    /\ [][self' = self /\ classifier' = classifier]_vars

\* A further extract call, begun after the first call returned records,
\* has gone through the rows and holds the list the first call returned.
C8_Witness ==
    /\ pc = "loop"
    /\ ~IsNone(first)
    /\ idx = Len(excel_data.transactions)
    /\ first = List(entries)
    /\ entries # <<>>

\* C9: identify returns a truth value, date a date and extract a list,
\* none of them an exception, whatever the file and the rule engine do; and
\* an extract call that has begun is never stuck: while rows are left, of
\* the finitely many decoded, the next one is processed without an
\* exception leaving the loop, and after the last one the call returns.
C9_NoFatalError ==
    /\ ret.op = "identify" => ret.val.t = "bool"
    /\ ret.op = "date" => ret.val.t = "date"
    /\ (ret.op = "extract" /\ ~ret.pending) => ret.val.t = "list"
    /\ pc = "loop" =>
          /\ ret = Pending("extract")
          /\ idx <= Len(excel_data.transactions)
          /\ idx < Len(excel_data.transactions) =>
                extract_row(self, classifier, file.path, idx + 1,
                            excel_data.transactions[idx + 1]).t \in {"Transaction", "continue"}

\* extract has returned the empty list for a file that is no workbook.
C9_Witness ==
    /\ ret = Returned("extract", List(<<>>))
    /\ file.kind = "corrupt"
    /\ file.path = PathXlsx

\* C11 as stated: the decoder gives one record for every data row of a
\* readable workbook that has a date or a description cell, and none for
\* the others: the decoded records are as many as those rows.
C11_RecordPerNonBlankRow ==
    (ret.op = "extract" /\ ~IsRaise(load_workbook(file))) =>
        Len(excel_data.transactions) = Len(NonBlank(file.rows))

\* C12: the date of a decoded row is the date of its date cell when the
\* cell holds a date or a date-time and is unset for any other content; a
\* row whose date is unset has no record, whatever its other cells and the
\* skip flags; and a dated row with an amount that carries no label and
\* that the rule engine accepts has its record all the same.
C12_UndatedNeverEmitted ==
    /\ ret.op = "extract" =>
          \A i \in 1..Len(excel_data.transactions) :
              excel_data.transactions[i].date =
                  IF NonBlank(file.rows)[i][1].t \in {"datetime", "date"}
                  THEN DateCell(NonBlank(file.rows)[i][1].d)
                  ELSE None
    /\ \A i \in 1..idx :
          IF IsNone(excel_data.transactions[i].date)
          THEN RecordsOf(i) = {}
          ELSE ( /\ DescriptionOf(excel_data.transactions[i])
                       \notin {PAYMENT_DESCRIPTION, BALANCE_FORWARD_DESCRIPTION}
                 /\ ~FinalizeFails(excel_data.transactions[i])
                 /\ ~IsNone(excel_data.transactions[i].credit) )
               => \E k \in RecordsOf(i) : entries[k].date = excel_data.transactions[i].date

\* extract has returned the record of a dated row of a workbook that also
\* has a row with text in its date cell and an amount, which has no record.
C12_Witness ==
    /\ ret.op = "extract" /\ ~ret.pending
    /\ Len(excel_data.transactions) = 2
    /\ \E i \in 1..idx :
          /\ NonBlank(file.rows)[i][1].t = "str"
          /\ IsNone(excel_data.transactions[i].date)
          /\ ~IsNone(excel_data.transactions[i].credit)
          /\ RecordsOf(i) = {}
    /\ \E i \in 1..idx :
          /\ ~IsNone(excel_data.transactions[i].date)
          /\ RecordsOf(i) # {}

\* C13: a record whose narration matches a configured pattern has exactly
\* two postings, the second on the account of the first matching pattern
\* with the negated amount of the first; a record that matches no pattern,
\* with no default account configured, has exactly one posting.
C13_PostingCountAndBalance ==
    \A k \in 1..Len(entries) :
        /\ Matching(self.transaction_patterns, entries[k].narration) # {}
              => /\ Len(entries[k].postings) = 2
                 /\ entries[k].postings[2].units.number
                       = Negated(entries[k].postings[1].units.number)
                 /\ entries[k].postings[2].units.currency = entries[k].postings[1].units.currency
                 /\ \E i \in Matching(self.transaction_patterns, entries[k].narration) :
                       /\ \A j \in Matching(self.transaction_patterns, entries[k].narration) : i <= j
                       /\ entries[k].postings[2].account = self.transaction_patterns[i].account
        /\ ( /\ Matching(self.transaction_patterns, entries[k].narration) = {}
             /\ IsNone(self.default_account) )
              => Len(entries[k].postings) = 1

\* extract has returned a record with a negative amount on the statement
\* account and the same amount, positive, on the account of the pattern
\* its narration matches.
C13_Witness ==
    /\ ret.op = "extract" /\ ~ret.pending
    /\ \E k \in 1..Len(entries) :
          /\ Matching(self.transaction_patterns, entries[k].narration) # {}
          /\ Len(entries[k].postings) = 2
          /\ IsNegative(entries[k].postings[1].units.number)
          /\ IsPositive(entries[k].postings[2].units.number)
          /\ entries[k].postings[2].account = Groceries

\* C14: the type of a record is "CREDIT" exactly when its row has the
\* inflow cell set, and then its amount is the inflow; it is "DEBIT"
\* otherwise, and then its amount is what the unary minus of line 267
\* makes of the outflow.
C14_KindMarker ==
    \A k \in 1..Len(entries) :
        IF ~IsNone(excel_data.transactions[entries[k].meta.lineno].credit)
        THEN /\ entries[k].meta.type = "CREDIT"
             /\ entries[k].postings[1].units.number
                   = excel_data.transactions[entries[k].meta.lineno].credit
        ELSE /\ entries[k].meta.type = "DEBIT"
             /\ entries[k].postings[1].units.number
                   = Neg(excel_data.transactions[entries[k].meta.lineno].debit)

\* extract has returned a "CREDIT" record for a row with both amount
\* cells set, and a "DEBIT" record for a row with the outflow only.
C14_Witness ==
    /\ ret.op = "extract" /\ ~ret.pending
    /\ \E k \in 1..Len(entries) :
          /\ ~IsNone(excel_data.transactions[entries[k].meta.lineno].credit)
          /\ ~IsNone(excel_data.transactions[entries[k].meta.lineno].debit)
          /\ entries[k].meta.type = "CREDIT"
    /\ \E k \in 1..Len(entries) :
          /\ IsNone(excel_data.transactions[entries[k].meta.lineno].credit)
          /\ entries[k].meta.type = "DEBIT"

\* v is unset, or a text that is not empty and neither starts nor ends
\* with whitespace.
UnsetOrTrimmed(v) ==
    \/ IsNone(v)
    \/ /\ v.t = "str"
       /\ v.s # <<>>
       /\ v.s[1] \notin Whitespace
       /\ v.s[Len(v.s)] \notin Whitespace

\* C15 as stated: the description and the foreign currency of every
\* decoded record are unset or a trimmed text that is not empty; a cell
\* holding only whitespace decodes to unset.
C15_TextFieldsNormalized ==
    ret.op = "extract" =>
        \A i \in 1..Len(excel_data.transactions) :
            /\ UnsetOrTrimmed(excel_data.transactions[i].description)
            /\ UnsetOrTrimmed(excel_data.transactions[i].foreign_currency)

\* ------------------------------------------------------------ number cells alone

\* The values given to _parse_norwegian_number: the cells of the exchange
\* rate, inflow and outflow columns of the sample rows, the empty text,
\* padded text and a text with a period; text of a tab and a no-break
\* space, text between a tab and a line end, texts with an exponent, with
\* an underscore and of a value that is no number; and float cells that
\* print with an exponent, as inf and as nan.
NumberCells ==
    {row[c] : row \in RowSamples, c \in 4..6}
    \cup { Str(<<>>), Str(<<" ", " ">>), Str(<<" ", "1", ",", "5", " ">>),
           Str(<<"1", "5", "0", ".", "5", "0">>), Str(<<"-", "0", ",", "7">>) }
    \cup { Str(<<"\t", " ">>), Str(<<"\t", "1", ",", "5", "\n">>),
           Str(<<"1", "e", "5">>), Str(<<"2", ",", "5", "E", "-", "3">>),
           Str(<<"1", "_", "0", "0", "0">>), Str(<<"N", "a", "N">>),
           FloatCell(<<"1", "e", "-", "0", "5">>), FloatCell(<<"1", ".", "5", "e", "+", "1", "6">>),
           FloatCell(<<"i", "n", "f">>), FloatCell(<<"n", "a", "n">>) }

\* _parse_norwegian_number(value) called on its own
ParseNumber ==
    /\ pc = "idle"
    /\ \E value \in NumberCells :
          ret' = [op |-> "_parse_norwegian_number", pending |-> FALSE,
                  arg |-> value, val |-> _parse_norwegian_number(value)]
    /\ UNCHANGED <<file, self, classifier, pc, excel_data, idx, entries, first>>

NumberInit == Init /\ file.rows = <<>>

NumberNext == ParseNumber

NumberSpec == NumberInit /\ [][NumberNext]_vars

\* The text is written with digits, a sign and a period only.
Positional(s) == \A i \in 1..Len(s) : s[i] \in Digits \cup {"-", "."}

\* C16: an empty cell, the empty text and text of whitespace only give
\* unset, not zero; an int or float cell gives a decimal of the cell's
\* value: the one that prints as the cell does when the cell prints
\* without exponent, 1E-5 for the float 1e-05, 1.5E+16 for the float
\* 1.5e+16, Infinity for inf and NaN for nan; and text with a comma gives
\* what the same text with a period in its place gives, "150,50" the
\* decimal 150.50.
C16_NumberParsing ==
    ret.op = "_parse_norwegian_number" =>
        /\ ( \/ IsNone(ret.arg)
             \/ (ret.arg.t = "str" /\ \A i \in 1..Len(ret.arg.s) : ret.arg.s[i] \in Whitespace) )
              => IsNone(ret.val)
        /\ ret.arg.t \in {"int", "float"} => ret.val.t = "Decimal"
        /\ (ret.arg.t \in {"int", "float"} /\ Positional(ret.arg.s))
              => DecimalStr(ret.val) = ret.arg.s
        /\ ret.arg = FloatCell(<<"1", "e", "-", "0", "5">>) => ret.val = Dec(0, <<"1">>, -5)
        /\ ret.arg = FloatCell(<<"1", ".", "5", "e", "+", "1", "6">>)
              => ret.val = Dec(0, <<"1", "5">>, 15)
        /\ ret.arg = FloatCell(<<"i", "n", "f">>) => ret.val = SpecialDec(0, <<"0">>, "F")
        /\ ret.arg = FloatCell(<<"n", "a", "n">>) => ret.val = SpecialDec(0, <<>>, "n")
        /\ (ret.arg.t = "str" /\ \E i \in 1..Len(ret.arg.s) : ret.arg.s[i] = ",")
              => ret.val = _parse_norwegian_number(
                               Str([i \in 1..Len(ret.arg.s) |->
                                       IF ret.arg.s[i] = "," THEN "." ELSE ret.arg.s[i]]))
        /\ ret.arg = Str(<<"1", "5", "0", ",", "5", "0">>)
              => ret.val = Dec(0, <<"1", "5", "0", "5", "0">>, -2)

\* _parse_norwegian_number has returned unset for text of whitespace only.
C16_Witness ==
    /\ ret.op = "_parse_norwegian_number"
    /\ ret.arg = Str(<<" ", " ">>)
    /\ IsNone(ret.val)

\* C17 as stated: the first posting of every record is on the configured
\* account, in the configured currency, for the amount resolved from the
\* row's amount cells; the record has the row's date and its narration is
\* the row's trimmed description.
C17_NarrationIsDescription ==
    \A k \in 1..Len(entries) :
        /\ Len(entries[k].postings) >= 1
        /\ entries[k].postings[1].account = self.account_name
        /\ entries[k].postings[1].units.currency = self.currency
        /\ entries[k].postings[1].units.number =
              IF ~IsNone(excel_data.transactions[entries[k].meta.lineno].credit)
              THEN excel_data.transactions[entries[k].meta.lineno].credit
              ELSE Neg(excel_data.transactions[entries[k].meta.lineno].debit)
        /\ entries[k].date = excel_data.transactions[entries[k].meta.lineno].date
        /\ Str(entries[k].narration) = excel_data.transactions[entries[k].meta.lineno].description

\* C17: the first posting of every record is on the configured account,
\* in the configured currency, for the amount resolved from the row's
\* amount cells; the record has the row's date, a date; its narration is
\* the row's trimmed description, and the empty text when the row has no
\* description; whatever the rule engine adds comes after the first
\* posting.
C17_PrimaryPosting ==
    \A k \in 1..Len(entries) :
        /\ Len(entries[k].postings) >= 1
        /\ entries[k].postings[1].account = self.account_name
        /\ entries[k].postings[1].units.currency = self.currency
        /\ entries[k].postings[1].units.number =
              IF ~IsNone(excel_data.transactions[entries[k].meta.lineno].credit)
              THEN excel_data.transactions[entries[k].meta.lineno].credit
              ELSE Neg(excel_data.transactions[entries[k].meta.lineno].debit)
        /\ entries[k].date = excel_data.transactions[entries[k].meta.lineno].date
        /\ entries[k].date.t = "date"
        /\ entries[k].narration =
              IF IsNone(excel_data.transactions[entries[k].meta.lineno].description)
              THEN <<>>
              ELSE excel_data.transactions[entries[k].meta.lineno].description.s

\* extract has returned the record of a row with no description, its
\* narration empty, and the record of a row with one; both have their first
\* posting on the statement account in the configured currency.
C17_Witness ==
    /\ ret.op = "extract" /\ ~ret.pending
    /\ \E k \in 1..Len(entries) :
          /\ IsNone(excel_data.transactions[entries[k].meta.lineno].description)
          /\ entries[k].narration = <<>>
          /\ entries[k].postings[1] = Posting(AccountName, Dec(1, <<"5", "0">>, 0), self.currency)
    /\ \E k \in 1..Len(entries) :
          /\ entries[k].narration = REMA
          /\ entries[k].postings[1] =
                Posting(AccountName, Dec(1, <<"1", "5", "0", "5">>, -1), self.currency)

\* C18: the list extract builds is a subsequence of the decoded rows in
\* their order: its records come from rows already processed, each record
\* from a later row than the record before it, so that no row has two
\* records, and each with the date and the description of its row; and the
\* rows are processed one at a time, in order.
C18_OutputOrder ==
    /\ \A k \in 1..Len(entries) :
          /\ entries[k].meta.lineno \in 1..idx
          /\ k > 1 => entries[k - 1].meta.lineno < entries[k].meta.lineno
          /\ entries[k].date = excel_data.transactions[entries[k].meta.lineno].date
          /\ entries[k].narration = DescriptionOf(excel_data.transactions[entries[k].meta.lineno])
    /\ \A i \in 1..idx : Cardinality(RecordsOf(i)) <= 1
    /\ (ret.op = "extract" /\ ~ret.pending) => ret.val = List(entries)

\* extract has returned two records with different dates, that of the
\* first row before that of the second.
C18_Witness ==
    /\ ret.op = "extract" /\ ~ret.pending
    /\ Len(ret.val.v) = 2
    /\ ret.val.v[1].date = DateCell(2)
    /\ ret.val.v[2].date = DateCell(1)
    /\ excel_data.transactions[1].date = DateCell(2)
    /\ excel_data.transactions[2].date = DateCell(1)

\* The data row has neither a date nor a description cell.
Blank(row) == IsNone(row[1]) /\ IsNone(row[2])

\* C19: lineno of a record is the position of its row among the data rows
\* that are not blank, counted from one: the record is that of a data row
\* r, lineno is the number of data rows up to r that are not blank, and so
\* it is r, the row number in the sheet less one, exactly when no blank row
\* comes before r; lineno grows strictly along the list.
C19_RowIndex ==
    \A k \in 1..Len(entries) :
        /\ k > 1 => entries[k - 1].meta.lineno < entries[k].meta.lineno
        /\ \E r \in 1..Len(file.rows) :
              /\ ~Blank(file.rows[r])
              /\ entries[k].meta.lineno = Cardinality({q \in 1..r : ~Blank(file.rows[q])})
              /\ excel_data.transactions[entries[k].meta.lineno] = decode_sample(file.rows[r])
              /\ entries[k].meta.lineno = r <=> (\A q \in 1..r : ~Blank(file.rows[q]))

\* extract has returned a record with lineno 1 for the second data row,
\* which follows a blank row.
C19_Witness ==
    /\ ret.op = "extract" /\ ~ret.pending
    /\ Len(file.rows) = 2
    /\ Blank(file.rows[1])
    /\ Len(entries) = 1
    /\ entries[1].meta.lineno = 1
    /\ excel_data.transactions[1] = decode_sample(file.rows[2])

\* The days in the date cells of the file's data rows.
DaysInFile(f) ==
    {f.rows[r][1].d : r \in {q \in 1..Len(f.rows) : f.rows[q][1].t \in {"datetime", "date"}}}

\* val is no earlier than the date of any of the records; when there are
\* records val is a day of the file.
CoversRecords(val, records, days) ==
    /\ val.t = "date"
    /\ \A k \in 1..Len(records) : records[k].date.d <= val.d
    /\ records # <<>> => val.d \in days

\* C20: what date returns for the file is no earlier than the date of
\* any record extract returns for it, and when extract returns a record it
\* is a date of the file's rows, whatever the current date is.
C20_DateCoversExtract ==
    ret.op = "date" =>
        CoversRecords(ret.val, extract(self, classifier, file).v, DaysInFile(file))

\* date, called on day 1, has returned day 2 for a file for which extract
\* returns a record of day 2.
C20_Witness ==
    /\ ret.op = "date"
    /\ ret.today = 1
    /\ ret.val = DateCell(2)
    /\ \E k \in 1..Len(extract(self, classifier, file).v) :
          extract(self, classifier, file).v[k].date = DateCell(2)

\* records without those whose narration is the label
WithoutLabel(records, label) == SelectSeq(records, LAMBDA e : e.narration # label)

\* with is what extract returns with a skip flag set and without what it
\* returns with the flag cleared, all else the same: with is without less
\* the records that carry the flag's label.
OnlyLabelRemoved(with, without, label) == with = WithoutLabel(without, label)

\* C21: what extract returns with a skip flag set is what it returns
\* with that flag cleared, the file and the other fields of the importer
\* being the same, less the records whose description is the flag's label;
\* the records of the other rows are the same in every field, lineno
\* included, and in the same order.
C21_SkipFlagsFrame ==
    (ret.op = "extract" /\ ~ret.pending) =>
        /\ IF self.skip_balance_forward
           THEN OnlyLabelRemoved(ret.val.v,
                    extract([self EXCEPT !.skip_balance_forward = FALSE], classifier, file).v,
                    BALANCE_FORWARD_DESCRIPTION)
           ELSE OnlyLabelRemoved(
                    extract([self EXCEPT !.skip_balance_forward = TRUE], classifier, file).v,
                    ret.val.v, BALANCE_FORWARD_DESCRIPTION)
        /\ IF self.skip_payments
           THEN OnlyLabelRemoved(ret.val.v,
                    extract([self EXCEPT !.skip_payments = FALSE], classifier, file).v,
                    PAYMENT_DESCRIPTION)
           ELSE OnlyLabelRemoved(
                    extract([self EXCEPT !.skip_payments = TRUE], classifier, file).v,
                    ret.val.v, PAYMENT_DESCRIPTION)

\* extract, with skip_balance_forward set and skip_payments cleared, has
\* returned the record of a payment row alone for a file with a
\* balance-forward row first, which it returns too with the flag cleared.
C21_Witness ==
    /\ ret.op = "extract" /\ ~ret.pending
    /\ self.skip_balance_forward /\ ~self.skip_payments
    /\ Len(ret.val.v) = 1
    /\ ret.val.v[1].narration = PAYMENT_DESCRIPTION
    /\ ret.val.v[1].meta.lineno = 2
    /\ Len(extract([self EXCEPT !.skip_balance_forward = FALSE], classifier, file).v) = 2

====
